---- MODULE Spec2Model ----
(***************************************************************************)
(* js-m4: the M4 macro-expansion engine (a chunk-fed Transform stream).    *)
(* Text is a sequence of one-character strings.  The engine object is the  *)
(* record `this`, whose fields carry the names of the JavaScript fields.   *)
(***************************************************************************)
EXTENDS Integers, Sequences, FiniteSets, TLC

VARIABLES this, input, fed, pc, ret

vars == <<this, input, fed, pc, ret>>

(***************************************************************************)
(* Text helpers                                                            *)
(***************************************************************************)
Lower == {"a","b","c","d","e","f","g","h","i","j","k","l","m",
          "n","o","p","q","r","s","t","u","v","w","x","y","z"}
Upper == {"A","B","C","D","E","F","G","H","I","J","K","L","M",
          "N","O","P","Q","R","S","T","U","V","W","X","Y","Z"}
Digit == {"0","1","2","3","4","5","6","7","8","9"}
Space == {" ", "\n", "\t", "\r"}

IsNameStart(c) == c \in Lower \cup Upper \cup {"_"}
IsNameChar(c) == IsNameStart(c) \/ c \in Digit

Drop(s, n) == SubSeq(s, n + 1, Len(s))
Take(s, n) == SubSeq(s, 1, n)
StartsWith(s, p) == Len(p) <= Len(s) /\ Take(s, Len(p)) = p

RECURSIVE Join(_, _)
\* Array.prototype.join: the texts of `list` separated by `sep`
Join(list, sep) ==
    IF list = <<>> THEN <<>>
    ELSE IF Len(list) = 1 THEN list[1]
    ELSE list[1] \o sep \o Join(Tail(list), sep)

\* the words the engine and its inputs use
Wdefine == <<"d","e","f","i","n","e">>
Wdivert == <<"d","i","v","e","r","t">>
Wundivert == <<"u","n","d","i","v","e","r","t">>
Wdivnum == <<"d","i","v","n","u","m">>
Wdnl == <<"d","n","l">>
Wchangequote == <<"c","h","a","n","g","e","q","u","o","t","e">>
Wundefined == <<"u","n","d","e","f","i","n","e","d">>
\* U+0060, the grave accent: a TLA+ string cannot hold it alone, so the
\* character is written GRAVE
Grave == "GRAVE"
LQ == <<Grave>>
RQ == <<"'">>

(***************************************************************************)
(* JavaScript numbers: num/den with den a power of ten, or NaN.            *)
(***************************************************************************)
RECURSIVE Normal(_, _)
Normal(n, d) ==
    IF d > 1 /\ n % 10 = 0 THEN Normal(n \div 10, d \div 10)
    ELSE [nan |-> FALSE, num |-> n, den |-> d]

Num(n) == [nan |-> FALSE, num |-> n, den |-> 1]
NaN == [nan |-> TRUE, num |-> 0, den |-> 1]

IsInteger(x) == ~x.nan /\ x.den = 1
NumEq(x, y) == ~x.nan /\ ~y.nan /\ x = y
NumLt(x, y) == ~x.nan /\ ~y.nan /\ x.num * y.den < y.num * x.den
MinusOne(x) == IF x.nan THEN NaN ELSE [x EXCEPT !.num = x.num - x.den]

DigitVal(c) == CHOOSE v \in 0..9 : <<"0","1","2","3","4","5","6","7","8","9">>[v + 1] = c
DigitChar(v) == <<"0","1","2","3","4","5","6","7","8","9">>[v + 1]

RECURSIVE DigitsVal(_)
DigitsVal(s) == IF s = <<>> THEN 0 ELSE 10 * DigitsVal(Take(s, Len(s) - 1)) + DigitVal(s[Len(s)])

RECURSIVE Pow10(_)
Pow10(n) == IF n = 0 THEN 1 ELSE 10 * Pow10(n - 1)

RECURSIVE NatToString(_)
NatToString(n) == IF n < 10 THEN <<DigitChar(n)>> ELSE NatToString(n \div 10) \o <<DigitChar(n % 10)>>

RECURSIVE PadLeft(_, _)
PadLeft(s, n) == IF Len(s) >= n THEN s ELSE PadLeft(<<"0">> \o s, n)

RECURSIVE Log10(_)
Log10(d) == IF d <= 1 THEN 0 ELSE 1 + Log10(d \div 10)

RECURSIVE Trim(_)
\* StringToNumber ignores white space around the literal
Trim(s) ==
    IF s # <<>> /\ s[1] \in Space THEN Trim(Tail(s))
    ELSE IF s # <<>> /\ s[Len(s)] \in Space THEN Trim(Take(s, Len(s) - 1))
    ELSE s

AllDigits(s) == \A i \in 1..Len(s) : s[i] \in Digit

\* an unsigned decimal literal: digits, digits '.', digits '.' digits, '.' digits
UnsignedToNumber(s) ==
    IF s # <<>> /\ AllDigits(s) THEN Num(DigitsVal(s))
    ELSE IF \E k \in 1..Len(s) : /\ s[k] = "."
                                /\ AllDigits(Take(s, k - 1))
                                /\ AllDigits(Drop(s, k))
                                /\ Len(s) > 1
         THEN LET k == CHOOSE k \in 1..Len(s) : s[k] = "."
                  ip == Take(s, k - 1)
                  fp == Drop(s, k)
              IN Normal(DigitsVal(ip) * Pow10(Len(fp)) + DigitsVal(fp), Pow10(Len(fp)))
    ELSE NaN

Negate(x) == IF x.nan THEN x ELSE [x EXCEPT !.num = 0 - x.num]

\* the unary + of JavaScript applied to a string: white space around the
\* literal is ignored (decimal literals; any text holding a letter is NaN)
SignedToNumber(s) ==
    IF s = <<>> THEN Num(0)
    ELSE IF s[1] = "-" THEN Negate(UnsignedToNumber(Tail(s)))
    ELSE IF s[1] = "+" THEN UnsignedToNumber(Tail(s))
    ELSE UnsignedToNumber(s)

ToNumber(str) == SignedToNumber(Trim(str))

\* Number.prototype.toString (x + '')
NumberToString(x) ==
    IF x.nan THEN <<"N","a","N">>
    ELSE LET a == IF x.num < 0 THEN 0 - x.num ELSE x.num
             sign == IF x.num < 0 THEN <<"-">> ELSE <<>>
         IN IF x.den = 1 THEN sign \o NatToString(a)
            ELSE sign \o NatToString(a \div x.den) \o <<".">>
                      \o PadLeft(NatToString(a % x.den), Log10(x.den))

(***************************************************************************)
(* lib/tokenizer                                                           *)
(***************************************************************************)
LITERAL == "LITERAL"
NAME == "NAME"

Tokenizer == [_buffer |-> <<>>, _leftQuote |-> LQ, _rightQuote |-> RQ, _end |-> FALSE]

push(t, chunk) == [t EXCEPT !._buffer = @ \o chunk]
unshift(t, text) == [t EXCEPT !._buffer = text \o @]
end(t) == [t EXCEPT !._end = TRUE]
isEnd(t) == t._end
\* the next raw character, <<>> when none is buffered
peekChar(t) == IF t._buffer = <<>> THEN <<>> ELSE <<t._buffer[1]>>
changeQuoteT(t, lhs, rhs) == [t EXCEPT !._leftQuote = lhs, !._rightQuote = rhs]

RECURSIVE CloseQuote(_, _, _, _)
\* the position of the first character of the right quote that closes the
\* span opened before position i (depth open quotes pending), 0 when the
\* buffer holds none
CloseQuote(t, b, i, depth) ==
    IF i > Len(b) THEN 0
    ELSE IF StartsWith(Drop(b, i - 1), t._rightQuote)
         THEN IF depth = 1 THEN i
              ELSE CloseQuote(t, b, i + Len(t._rightQuote), depth - 1)
    ELSE IF StartsWith(Drop(b, i - 1), t._leftQuote)
         THEN CloseQuote(t, b, i + Len(t._leftQuote), depth + 1)
    ELSE CloseQuote(t, b, i + 1, depth)

RECURSIVE NameLen(_, _)
NameLen(b, n) == IF n < Len(b) /\ IsNameChar(b[n + 1]) THEN NameLen(b, n + 1) ELSE n

NoToken(t) == [token |-> <<>>, tokenizer |-> t]
Token(t, type, value, used) ==
    [token |-> <<[type |-> type, value |-> value]>>,
     tokenizer |-> [t EXCEPT !._buffer = Drop(@, used)]]

\* the token of the quoted span the buffer starts with, p the position of its
\* closing quote (0: not buffered)
QuotedSpan(t, p) ==
    IF p > 0
    THEN Token(t, LITERAL, SubSeq(t._buffer, Len(t._leftQuote) + 1, p - 1),
               p - 1 + Len(t._rightQuote))
    ELSE IF ~t._end THEN NoToken(t)
    ELSE Token(t, LITERAL, Drop(t._buffer, Len(t._leftQuote)), Len(t._buffer))

\* the next token, or none (<<>>) when the buffered text does not determine it
read(t) ==
    LET b == t._buffer
        lq == t._leftQuote
        rq == t._rightQuote
    IN
    IF b = <<>> THEN NoToken(t)
    ELSE IF lq # <<>> /\ rq # <<>> /\ StartsWith(b, lq)
         THEN QuotedSpan(t, CloseQuote(t, b, Len(lq) + 1, 1))
    ELSE IF lq # <<>> /\ rq # <<>> /\ ~t._end /\ Len(b) < Len(lq) /\ StartsWith(lq, b)
         THEN NoToken(t)
    ELSE IF IsNameStart(b[1]) THEN
        LET n == NameLen(b, 1) IN
        IF n = Len(b) /\ ~t._end THEN NoToken(t)
        ELSE Token(t, NAME, Take(b, n), n)
    ELSE Token(t, LITERAL, <<b[1]>>, 1)

(***************************************************************************)
(* expand                                                                  *)
(***************************************************************************)
\* quotedArgs: arguments 1.. each between the quotes of opts, joined by ','
quotedArgs(opts, args) ==
    Join([i \in 1..(Len(args) - 1) |-> opts.leftQuote \o args[i + 1] \o opts.rightQuote],
         <<",">>)

RECURSIVE DigitRun(_, _)
DigitRun(s, i) == IF i <= Len(s) /\ s[i] \in Digit THEN 1 + DigitRun(s, i + 1) ELSE 0

\* the replacement of one match of /\$([0-9]+|[#*@])/
Replacement(opts, args, nb) ==
    IF nb = <<"#">> THEN NatToString(Len(args) - 1)
    ELSE IF nb = <<"*">> THEN Join(Tail(args), <<",">>)
    ELSE IF nb = <<"@">> THEN quotedArgs(opts, args)
    ELSE IF DigitsVal(nb) >= Len(args) THEN <<>>
    ELSE args[DigitsVal(nb) + 1]

RECURSIVE Replace(_, _, _, _)
\* val.replace(/\$([0-9]+|[#*@])/g, fn) from position i on: one scan, left to
\* right, the replacement is not scanned again
Replace(opts, val, args, i) ==
    IF i > Len(val) THEN <<>>
    ELSE IF val[i] = "$" /\ i < Len(val) /\ val[i + 1] \in {"#", "*", "@"}
         THEN Replacement(opts, args, <<val[i + 1]>>) \o Replace(opts, val, args, i + 2)
    ELSE IF val[i] = "$" /\ DigitRun(val, i + 1) > 0
         THEN LET n == DigitRun(val, i + 1) IN
              Replacement(opts, args, SubSeq(val, i + 1, i + n))
                  \o Replace(opts, val, args, i + n + 1)
    ELSE <<val[i]>> \o Replace(opts, val, args, i + 1)

\* expand scanning its own result once more
expand_again(opts, val, args) == Replace(opts, Replace(opts, val, args, 1), args, 1)

\* expand(opts, val, name, arg1, ...): args holds the name and the arguments
expand(opts, val, args) == Replace(opts, val, args, 1)

(***************************************************************************)
(* JavaScript values passed to and returned by the macro functions         *)
(***************************************************************************)
Null == <<>>
Undefined == [t |-> "undefined", v |-> <<>>]
Str(s) == [t |-> "string", v |-> s]
NumV(x) == [t |-> "number", v |-> x]
Fn(f) == [t |-> "function", v |-> f]
\* arguments[i - 1] of a call made with the list args
Arg(args, i) == IF i <= Len(args) THEN Str(args[i]) ELSE Undefined

\* a value and the engine after the call that produced it
R(m, v) == [m |-> m, v |-> v]

\* M4Error codes
E_NEST_LIMIT == "E_NEST_LIMIT"
E_INV_RET == "E_INV_RET"
E_NOT_IMPLEMENTED == "not implemented"
W_TOO_MANY_ARGS == "W_TOO_MANY_ARGS"
W_TXT_UNDIV == "W_TXT_UNDIV"

throw(m, code) == [m EXCEPT !.thrown = <<code>>]
emitWarning(m, code) == [m EXCEPT !.warnings = @ \cup {code}]

(***************************************************************************)
(* The values of this._macros                                              *)
(***************************************************************************)
\* the function _makeMacro(fn, inert, dynArgs) returns
_makeMacro(fn, inert, dynArgs) ==
    [kind |-> "macro", fn |-> fn, inert |-> inert, dynArgs |-> dynArgs, body |-> <<>>]
\* expand.bind(null, this._expandOpts, body)
BoundExpand(body) ==
    [kind |-> "expand", fn |-> "expand", inert |-> FALSE, dynArgs |-> FALSE, body |-> body]
\* a function the host passes to define(); it returns the number 0, not a string
HostFunction ==
    [kind |-> "host", fn |-> "host", inert |-> FALSE, dynArgs |-> FALSE, body |-> <<>>]

\* Function.prototype.length of the bootstrap methods
FnLength(fn) ==
    CASE fn = "define" -> 2
      [] fn = "divert" -> 1
      [] fn = "undivert" -> 0
      [] fn = "divnum" -> 0
      [] fn = "dnl" -> 0
      [] fn = "changeQuote" -> 2

(***************************************************************************)
(* Diversions                                                              *)
(***************************************************************************)
HasDiversion(m, key) == key \in DOMAIN m._diversions

\* this._diversions[key] = text; an array index extends the array's length
SetDiversion(m, key, text) ==
    [m EXCEPT !._diversions = [k \in DOMAIN @ \cup {key} |-> IF k = key THEN text ELSE @[k]],
              !._diversionsLength =
                  IF IsInteger(key) /\ key.num >= 0 /\ key.num + 1 > @ THEN key.num + 1 ELSE @]

\* delete this._diversions[key]
DeleteDiversion(m, key) ==
    [m EXCEPT !._diversions = [k \in DOMAIN @ \ {key} |-> @[k]]]

\* _pushOutput forwarding to the sink whenever the index is not negative
_pushOutput_sink(m, output) ==
    IF NumLt(m._divertIx, Num(0)) THEN m ELSE [m EXCEPT !.out = @ \o output]

_pushOutput(m, output) ==
    IF NumLt(m._divertIx, Num(0)) THEN m
    ELSE IF NumEq(m._divertIx, Num(0)) THEN [m EXCEPT !.out = @ \o output]
    ELSE LET key == MinusOne(m._divertIx) IN
         SetDiversion(m, key, (IF HasDiversion(m, key) THEN m._diversions[key]
                                                       ELSE Wundefined) \o output)

\* define that also gives the new function to the open calls of the name
define_retro(m, name, fnOrBody) ==
    IF name.t # "string" \/ name.v = <<>> THEN R(m, Str(<<>>))
    ELSE LET body == IF fnOrBody.t = "undefined" THEN Str(<<>>) ELSE fnOrBody
             f == IF body.t # "function" THEN BoundExpand(body.v) ELSE body.v
         IN R([m EXCEPT !._macros = [n \in DOMAIN @ \cup {name.v} |->
                                        IF n = name.v THEN f ELSE @[n]],
                        !._macroStack = [i \in DOMAIN @ |->
                                        IF @[i].args[1] = name.v
                                        THEN [@[i] EXCEPT !.fn = f] ELSE @[i]]],
              Undefined)

define(m, name, fnOrBody) ==
    IF name.t # "string" \/ name.v = <<>> THEN R(m, Str(<<>>))
    ELSE LET body == IF fnOrBody.t = "undefined" THEN Str(<<>>) ELSE fnOrBody
             f == IF body.t # "function" THEN BoundExpand(body.v) ELSE body.v
         IN R([m EXCEPT !._macros = [n \in DOMAIN @ \cup {name.v} |->
                                        IF n = name.v THEN f ELSE @[n]]],
              Undefined)

\* +ix, after the default of divert
UnaryPlus(ix) ==
    IF ix.t = "undefined" THEN Num(0)
    ELSE IF ix.t = "number" THEN ix.v
    ELSE ToNumber(ix.v)

\* divert from the assignment of this._divertIx on
DivertTo(m, x) ==
    IF ~HasDiversion(m, MinusOne(x))
    THEN SetDiversion([m EXCEPT !._divertIx = x], MinusOne(x), <<>>)
    ELSE [m EXCEPT !._divertIx = x]

divert(m, ix) == DivertTo(m, UnaryPlus(ix))

\* _undivert without the test of the current index
_undivert_any(m, i) ==
    IF NumLt(i, Num(0)) \/ NumEq(i, Num(0)) THEN m
    ELSE IF ~HasDiversion(m, MinusOne(i)) THEN m
    ELSE DeleteDiversion(_pushOutput(m, m._diversions[MinusOne(i)]), MinusOne(i))

\* _undivert without the delete of the buffer
_undivert_keep(m, i) ==
    IF NumLt(i, Num(0)) \/ NumEq(i, Num(0)) \/ NumEq(m._divertIx, i) THEN m
    ELSE IF ~HasDiversion(m, MinusOne(i)) THEN m
    ELSE _pushOutput(m, m._diversions[MinusOne(i)])

_undivert(m, i) ==
    IF NumLt(i, Num(0)) \/ NumEq(i, Num(0)) \/ NumEq(m._divertIx, i) THEN m
    ELSE IF ~HasDiversion(m, MinusOne(i)) THEN m
    ELSE DeleteDiversion(_pushOutput(m, m._diversions[MinusOne(i)]), MinusOne(i))

RECURSIVE UndivertFrom(_, _)
\* the for loop of _undivertAll from index i on
UndivertFrom(m, i) ==
    IF i <= m._diversionsLength THEN UndivertFrom(_undivert(m, Num(i)), i + 1) ELSE m

_undivertAll(m) == UndivertFrom(m, 1)

\* one turn of the while loop of undivert, for the target arg with i = +arg
UndivertArg(m, arg, i) ==
    IF arg = <<>> THEN m
    ELSE IF NumberToString(i) = arg THEN _undivert(m, i)
    ELSE IF m._opts.extensions THEN throw(m, E_NOT_IMPLEMENTED)
    ELSE emitWarning(m, W_TXT_UNDIV)

RECURSIVE UndivertArgs(_, _)
\* the while loop of undivert: the targets are popped from the end of ics
UndivertArgs(m, ics) ==
    IF ics = <<>> \/ m.thrown # Null THEN m
    ELSE UndivertArgs(UndivertArg(m, ics[Len(ics)], ToNumber(ics[Len(ics)])),
                      Take(ics, Len(ics) - 1))

undivert(m, ics) ==
    IF ics = <<>> THEN R(_undivertAll(m), Undefined)
    ELSE R(UndivertArgs(m, ics), Undefined)

divnum(m) == R(m, NumV(m._divertIx))

dnl(m) == R([m EXCEPT !._dnlMode = TRUE], Undefined)

changeQuote(m, lhs, rhs) ==
    LET l == IF lhs.t = "undefined" THEN LQ ELSE lhs.v
        r == IF lhs.t = "undefined" \/ rhs.t = "undefined" THEN RQ ELSE rhs.v
    IN R([m EXCEPT !._tokenizer = changeQuoteT(@, l, r),
                   !._expandOpts = [@ EXCEPT !.leftQuote = l, !.rightQuote = r]],
         Undefined)

(***************************************************************************)
(* Macro invocation                                                        *)
(***************************************************************************)
\* fn.apply(null, args) for the bootstrap method the macro wraps
ApplyNative(m, fn, args) ==
    CASE fn = "define" -> define(m, Arg(args, 1), Arg(args, 2))
      [] fn = "divert" -> R(divert(m, Arg(args, 1)), Undefined)
      [] fn = "undivert" -> undivert(m, args)
      [] fn = "divnum" -> divnum(m)
      [] fn = "dnl" -> dnl(m)
      [] fn = "changeQuote" -> changeQuote(m, Arg(args, 1), Arg(args, 2))

\* if (typeof res === 'undefined') return ''; return res + '';
ResultText(r) ==
    IF r.v.t = "undefined" THEN R(r.m, Str(<<>>))
    ELSE IF r.v.t = "number" THEN R(r.m, Str(NumberToString(r.v.v)))
    ELSE R(r.m, r.v)

\* the body of the function macro() that _makeMacro returns; all holds the
\* macro name followed by the arguments
macro(m, f, all) ==
    LET macroName == all[1]
        args == Tail(all)
    IN IF f.inert /\ args = <<>> THEN R(m, Str(<<Grave>> \o macroName \o <<"'">>))
       ELSE ResultText(ApplyNative(IF ~f.dynArgs /\ Len(args) > FnLength(f.fn)
                                   THEN emitWarning(m, W_TOO_MANY_ARGS) ELSE m,
                                   f.fn, args))

\* fn.apply(null, args) for a value of this._macros
Apply(m, f, args) ==
    CASE f.kind = "macro" -> macro(m, f, args)
      [] f.kind = "expand" -> R(m, Str(expand(m._expandOpts, f.body, args)))
      [] f.kind = "host" -> R(m, NumV(Num(0)))

\* if (typeof result !== 'string') throw new M4Error(Code.E_INV_RET, args[0]);
CheckResult(r) ==
    IF r.m.thrown # Null THEN r
    ELSE IF r.v.t # "string" THEN R(throw(r.m, E_INV_RET), r.v)
    ELSE r

_callMacro(m, f, args) == CheckResult(Apply(m, f, args))

\* this._tokenizer.unshift(result), unless the call has thrown
Reinject(r) ==
    IF r.m.thrown # Null THEN r.m ELSE [r.m EXCEPT !._tokenizer = unshift(@, r.v.v)]

\* this._pending = null, unless the call has thrown
ClearPending(m) == IF m.thrown # Null THEN m ELSE [m EXCEPT !._pending = Null]

_makeMacroCall(m, name) == [fn |-> m._macros[name], args |-> <<name>>, parens |-> 0]

\* _startMacroArgs with > for === in the test of the nesting limit
_startMacroArgs_gt(m) ==
    IF m._opts.nestingLimit > 0 /\ Len(m._macroStack) > m._opts.nestingLimit
    THEN throw(m, E_NEST_LIMIT)
    ELSE LET p == m._pending[1] IN
         [m EXCEPT !._tokenizer = read(@).tokenizer,
                   !._macroStack = Append(@, [p EXCEPT !.args = Append(@, <<>>)]),
                   !._pending = Null,
                   !._skipWhitespace = TRUE]

_startMacroArgs(m) ==
    IF m._opts.nestingLimit > 0 /\ Len(m._macroStack) = m._opts.nestingLimit
    THEN throw(m, E_NEST_LIMIT)
    ELSE LET p == m._pending[1] IN
         [m EXCEPT !._tokenizer = read(@).tokenizer,
                   !._macroStack = Append(@, [p EXCEPT !.args = Append(@, <<>>)]),
                   !._pending = Null,
                   !._skipWhitespace = TRUE]

\* _processPendingMacro without this._pending = null after the call
_processPendingMacro_keep(m) ==
    IF m._pending = Null THEN m
    ELSE IF peekChar(m._tokenizer) = Null /\ ~isEnd(m._tokenizer) THEN m
    ELSE IF peekChar(m._tokenizer) = <<"(">> THEN _startMacroArgs(m)
    ELSE Reinject(_callMacro(m, m._pending[1].fn, m._pending[1].args))

_processPendingMacro(m) ==
    IF m._pending = Null THEN m
    ELSE IF peekChar(m._tokenizer) = Null /\ ~isEnd(m._tokenizer) THEN m
    ELSE IF peekChar(m._tokenizer) = <<"(">> THEN _startMacroArgs(m)
    ELSE ClearPending(Reinject(_callMacro(m, m._pending[1].fn, m._pending[1].args)))

\* macro.args[macro.args.length - 1] += text, for the top frame
AppendToTop(m, text) ==
    LET d == Len(m._macroStack)
        n == Len(m._macroStack[d].args)
    IN [m EXCEPT !._macroStack[d].args[n] = @ \o text]

\* the engine after the call and whether the token was consumed
_processLiteralInMacro(m, token) ==
    LET d == Len(m._macroStack)
        top == m._macroStack[d]
    IN
    IF token.value = <<")">> THEN
        IF top.parens = 0 THEN
            R(Reinject(_callMacro([m EXCEPT !._macroStack = Take(@, d - 1)],
                                  top.fn, top.args)), TRUE)
        ELSE R([m EXCEPT !._macroStack[d].parens = @ - 1], FALSE)
    ELSE IF token.value = <<"(">> THEN R([m EXCEPT !._macroStack[d].parens = @ + 1], FALSE)
    ELSE IF token.value = <<",">> /\ top.parens = 0 THEN
        R([m EXCEPT !._macroStack[d].args = Append(@, <<>>), !._skipWhitespace = TRUE], TRUE)
    ELSE R(m, FALSE)

\* /\s/.test(value)
HasSpace(value) == \E i \in 1..Len(value) : value[i] \in Space

\* if (this._processLiteralInMacro(macro, token)) return;
\* macro.args[macro.args.length - 1] += token.value;
UnlessConsumed(r, token) == IF r.v THEN r.m ELSE AppendToTop(r.m, token.value)

\* _processToken from the second statement on
ProcessTokenFrom(m1, token) ==
    IF token.type = NAME /\ token.value \in DOMAIN m1._macros
    THEN [m1 EXCEPT !._pending = <<_makeMacroCall(m1, token.value)>>]
    ELSE IF m1._macroStack = <<>> THEN _pushOutput(m1, token.value)
    ELSE IF token.type = LITERAL
         THEN UnlessConsumed(_processLiteralInMacro(m1, token), token)
    ELSE AppendToTop(m1, token.value)

\* _processToken skipping white space whatever the flag says
_processToken_skip(m, token) ==
    IF token.type = LITERAL /\ HasSpace(token.value) THEN m
    ELSE ProcessTokenFrom([m EXCEPT !._skipWhitespace = FALSE], token)

_processToken(m, token) ==
    IF m._skipWhitespace /\ token.type = LITERAL /\ HasSpace(token.value) THEN m
    ELSE ProcessTokenFrom([m EXCEPT !._skipWhitespace = FALSE], token)

(***************************************************************************)
(* The constructor                                                         *)
(***************************************************************************)
_registerBuiltins ==
    [n \in {Wdefine, Wdivert, Wundivert, Wdivnum, Wdnl, Wchangequote} |->
        CASE n = Wdefine -> _makeMacro("define", TRUE, FALSE)
          [] n = Wdivert -> _makeMacro("divert", FALSE, FALSE)
          [] n = Wundivert -> _makeMacro("undivert", FALSE, TRUE)
          [] n = Wdivnum -> _makeMacro("divnum", FALSE, FALSE)
          [] n = Wdnl -> _makeMacro("dnl", FALSE, FALSE)
          [] n = Wchangequote -> _makeMacro("changeQuote", FALSE, FALSE)]

\* new M4(opts); out is the readable side, warnings the 'warning' events
\* emitted, thrown the exception in flight (none between steps)
M4(opts) ==
    [_opts |-> opts,
     _macros |-> _registerBuiltins,
     _pending |-> Null,
     _macroStack |-> <<>>,
     _divertIx |-> Num(0),
     _diversions |-> <<>>,
     _diversionsLength |-> 0,
     _skipWhitespace |-> FALSE,
     _tokenizer |-> Tokenizer,
     _expandOpts |-> [ext |-> TRUE, leftQuote |-> Tokenizer._leftQuote,
                      rightQuote |-> Tokenizer._rightQuote],
     _err |-> Null,
     _dnlMode |-> FALSE,
     out |-> <<>>,
     warnings |-> {},
     thrown |-> Null]

(***************************************************************************)
(* _transform and _flush, one step per position of the handlers            *)
(***************************************************************************)
\* bounds of the explored runs: buffered characters, and characters held in
\* the output, the diversions and the open arguments
MaxBuffer == 48
MaxText == 48

RECURSIVE SumLen(_)
SumLen(list) == IF list = <<>> THEN 0 ELSE Len(list[1]) + SumLen(Tail(list))

RECURSIVE SetSumLen(_, _)
SetSumLen(f, keys) ==
    IF keys = {} THEN 0
    ELSE LET k == CHOOSE k \in keys : TRUE IN Len(f[k]) + SetSumLen(f, keys \ {k})

RECURSIVE StackLen(_)
StackLen(stack) == IF stack = <<>> THEN 0 ELSE SumLen(stack[1].args) + 1 + StackLen(Tail(stack))

TextHeld(m) == Len(m.out) + SetSumLen(m._diversions, DOMAIN m._diversions) + StackLen(m._macroStack)
InBounds(m) == Len(m._tokenizer._buffer) <= MaxBuffer /\ TextHeld(m) <= MaxText

\* catch (err) { this._err = err; ... }
catch(m) == [m EXCEPT !._err = m.thrown, !.thrown = Null]

\* the callback _flush passes to _transform, called without an error
FlushCallback(m) == _undivertAll(divert(m, Undefined))

\* the step at position at ("pending": the call of _processPendingMacro,
\* "read": the read of the next token and the body of the while loop) of
\* _transform, run by handler h ("t": a written chunk, "f": _flush); the
\* result holds the engine and the position reached
Finish(m, h) == IF h = "t" THEN [m |-> m, pc |-> "idle"] ELSE [m |-> FlushCallback(m), pc |-> "done"]
Fail(m, h) == [m |-> catch(m), pc |-> IF h = "t" THEN "idle" ELSE "done"]

\* _transform leaving the dnl mode at the start of every chunk
Enter_reset(m, chunk, h) ==
    IF m._err # Null THEN Finish(m, h)
    ELSE [m |-> [m EXCEPT !._tokenizer = push(@, chunk), !._dnlMode = FALSE],
          pc |-> h \o "_pending"]

Enter(m, chunk, h) ==
    IF m._err # Null THEN Finish(m, h)
    ELSE [m |-> [m EXCEPT !._tokenizer = push(@, chunk)], pc |-> h \o "_pending"]

\* the try block goes on at position at, unless m holds a thrown exception
Continue(m, h, at) == IF m.thrown # Null THEN Fail(m, h) ELSE [m |-> m, pc |-> h \o at]

PendingStep(m, h) == Continue(_processPendingMacro(m), h, "_read")

\* the body of the while loop, up to the call of _processPendingMacro
LoopBody(m, token) ==
    IF m._dnlMode
    THEN IF token.value = <<"\n">> THEN [m EXCEPT !._dnlMode = FALSE] ELSE m
    ELSE _processToken(m, token)

\* the while loop for r, the result of this._tokenizer.read()
Loop(m, r, h) ==
    IF r.token = Null THEN Finish(m, h)
    ELSE Continue(LoopBody([m EXCEPT !._tokenizer = r.tokenizer], r.token[1]), h, "_pending")

ReadStep(m, h) == Loop(m, read(m._tokenizer), h)

\* the handler goes on in state s
Goto(s) == this' = s.m /\ pc' = s.pc

Handler == IF pc \in {"t_pending", "t_read"} THEN "t" ELSE "f"

\* What the host writes.  input.left is the text it has still to write, cut
\* into chunks at any place; input.pieces are the chunks it may write instead,
\* input.max of them at most (fed counts them); input.whole is the text given
\* at the start.
Chunks ==
    {Take(input.left, n) : n \in 1..Len(input.left)}
        \cup (IF fed < input.max THEN input.pieces ELSE {})

\* the host writes a chunk: _transform(chunk, encoding, cb) up to the try
Write ==
    /\ pc = "idle"
    /\ \E chunk \in Chunks :
        /\ Goto(Enter(this, chunk, "t"))
        /\ input' = IF chunk \in input.pieces THEN input
                    ELSE [input EXCEPT !.left = Drop(@, Len(chunk))]
        /\ fed' = IF chunk \in input.pieces THEN fed + 1 ELSE fed
    /\ UNCHANGED ret

\* the host ends the stream: _flush(cb) up to the try of its _transform('')
Flush ==
    /\ pc = "idle"
    /\ input.left = <<>>
    /\ Goto(Enter([this EXCEPT !._tokenizer = end(@)], <<>>, "f"))
    /\ UNCHANGED <<input, fed, ret>>

ResolvePending ==
    /\ pc \in {"t_pending", "f_pending"}
    /\ InBounds(this)
    /\ Goto(PendingStep(this, Handler))
    /\ UNCHANGED <<input, fed, ret>>

NextToken ==
    /\ pc \in {"t_read", "f_read"}
    /\ InBounds(this)
    /\ Goto(ReadStep(this, Handler))
    /\ UNCHANGED <<input, fed, ret>>

Next == Write \/ Flush \/ ResolvePending \/ NextToken

\* the options of the constructor
NoLimit == [nestingLimit |-> 0, extensions |-> FALSE]

GivenText(text) == [whole |-> text, left |-> text, pieces |-> {}, max |-> 0]
AnyOf(pieces, max) == [whole |-> <<>>, left |-> <<>>, pieces |-> pieces, max |-> max]

Start(m, in) ==
    /\ this = m
    /\ input = in
    /\ fed = 0
    /\ pc = "idle"
    /\ ret = Null

\* name(args) as text
Call(name, args) == name \o <<"(">> \o args \o <<")">>

(***************************************************************************)
(* C9: define, dnl and a call with one argument                            *)
(***************************************************************************)
Text9 ==
    Call(Wdefine, <<Grave, "f", "o", "o", "'", ",", Grave, "H", "e", "l", "l", "o", " ", "$", "1", "'">>)
        \o Wdnl \o <<"\n">>
        \o Call(<<"f", "o", "o">>, <<Grave, "w", "o", "r", "l", "d", "'">>) \o <<"\n">>

Init9 == Start(M4(NoLimit), GivenText(Text9))
Spec9 == Init9 /\ [][Next]_vars

\* C9: once the whole text is processed and the stream ended, the output is
\* exactly Hello world followed by one newline
C9_HelloWorld ==
    pc = "done" => this.out = <<"H", "e", "l", "l", "o", " ", "w", "o", "r", "l", "d", "\n">>

(***************************************************************************)
(* C1: fatal errors                                                        *)
(***************************************************************************)
Limit1Ext == [nestingLimit |-> 1, extensions |-> TRUE]
Wbad == <<"b", "a", "d">>

Pieces1 ==
    { Call(Wdivert, <<"1">>),
      <<"a", " ">>,
      Wdivert \o <<"(">> \o Wdivnum \o <<"(">>,
      Call(Wundivert, <<"x">>),
      Wbad \o <<" ">> }

\* the host has registered a function that returns a number as macro bad
MaxChunks1 == 3
Init1 == Start(define(M4(Limit1Ext), Str(Wbad), Fn(HostFunction)).m, AnyOf(Pieces1, MaxChunks1))
Spec1 == Init1 /\ [][Next]_vars

\* C1: once a fatal error has poisoned the engine, no step (a later chunk,
\* the end-of-input flush) adds anything to the output
C1_NoOutputAfterFatal == [][this._err # Null => this.out' = this.out]_vars

(***************************************************************************)
(* C2, C3: diversions                                                      *)
(***************************************************************************)
PiecesDiv ==
    { Call(Wdivert, <<"1">>) \o <<"a", " ">>,
      Call(Wdivert, <<"2">>) \o <<"b", " ">>,
      Call(Wdivert, <<"x">>) \o <<"c", " ">>,
      Call(Wdivert, <<"-", "1">>) \o <<"d", " ">>,
      Wdivert \o <<" ">>,
      Wundivert \o <<"\n">> }

MaxChunksDiv == 4
InitDiv == Start(M4(NoLimit), AnyOf(PiecesDiv, MaxChunksDiv))
SpecDiv == InitDiv /\ [][Next]_vars

\* the buffers that hold text, but for the one output goes to
Held(m) ==
    {k \in DOMAIN m._diversions : m._diversions[k] # <<>> /\ k # MinusOne(m._divertIx)}

\* the least key of a non-empty set of keys (NaN comes last)
Least(keys) ==
    IF \E k \in keys : ~k.nan
    THEN CHOOSE k \in keys : ~k.nan /\ \A j \in keys : j.nan \/ j = k \/ NumLt(k, j)
    ELSE CHOOSE k \in keys : TRUE

RECURSIVE Ascending(_, _)
\* the texts of the buffers keys of m, in ascending order of index
Ascending(m, keys) ==
    IF keys = {} THEN <<>>
    ELSE m._diversions[Least(keys)] \o Ascending(m, keys \ {Least(keys)})

\* the text output has gone to so far: the sink, or the current buffer
Destination(m) ==
    IF NumEq(m._divertIx, Num(0)) THEN m.out
    ELSE IF MinusOne(m._divertIx) \in DOMAIN m._diversions
         THEN m._diversions[MinusOne(m._divertIx)]
    ELSE <<>>

\* the step about to be taken resolves the pending call of native macro fn
\* as a call without arguments
BareCall(fn) ==
    /\ pc \in {"t_pending", "f_pending"}
    /\ InBounds(this)
    /\ this._pending # Null
    /\ this._pending[1].fn.kind = "macro"
    /\ this._pending[1].fn.fn = fn
    /\ peekChar(this._tokenizer) # <<"(">>
    /\ ~(peekChar(this._tokenizer) = Null /\ ~isEnd(this._tokenizer))

\* C2: undivert without targets hands every buffer but the current one to
\* the output in ascending order of index and removes it, and a second
\* undivert right after it emits nothing
C2_UndivertAll ==
    [][BareCall("undivert") =>
          /\ ~NumLt(this._divertIx, Num(0)) =>
                Destination(this') = Destination(this) \o Ascending(this, Held(this))
          /\ Held(this') = {}
          /\ _undivertAll(this') = this']_vars

\* C3: the flush at the end of the input leaves the index at 0, sends the
\* text of every buffer to the output and leaves no buffer that holds text
C3_FlushDrains ==
    [][(pc # "done" /\ pc' = "done" /\ this'._err = Null) =>
          /\ NumEq(this'._divertIx, Num(0))
          /\ this'.out = this.out \o Ascending(this, DOMAIN this._diversions)
          /\ \A k \in DOMAIN this'._diversions : this'._diversions[k] = <<>>]_vars

(***************************************************************************)
(* C4: quoted spans inside the arguments of a call                         *)
(***************************************************************************)
Pieces4 ==
    { Wdivnum \o <<"(">>,
      <<Grave, ",", "'">>,
      <<Grave, "(", "'">>,
      <<Grave, ")", "'">>,
      <<Grave, "x", "'">>,
      <<")">> }

MaxChunks4 == 3
Init4 == Start(M4(NoLimit), AnyOf(Pieces4, MaxChunks4))
Spec4 == Init4 /\ [][Next]_vars

\* the step about to be taken hands the top frame the Literal token of a
\* quoted span
QuotedSpanInFrame ==
    /\ pc \in {"t_read", "f_read"}
    /\ InBounds(this)
    /\ ~this._dnlMode
    /\ this._macroStack # <<>>
    /\ this._tokenizer._leftQuote # <<>>
    /\ StartsWith(this._tokenizer._buffer, this._tokenizer._leftQuote)
    /\ read(this._tokenizer).token # Null

Top(m) == m._macroStack[Len(m._macroStack)]
LastArg(frame) == frame.args[Len(frame.args)]

\* C4: the Literal token of a quoted span opens no argument slot, leaves the
\* paren depth alone and does not pop the frame; its text is appended to the
\* current argument
C4_QuotedSpanProtected ==
    [][QuotedSpanInFrame =>
          /\ Len(this'._macroStack) = Len(this._macroStack)
          /\ Top(this').parens = Top(this).parens
          /\ Len(Top(this').args) = Len(Top(this).args)
          /\ LastArg(Top(this')) = LastArg(Top(this)) \o read(this._tokenizer).token[1].value]_vars

(***************************************************************************)
(* C5: an inert macro called without arguments                             *)
(***************************************************************************)
Pieces5 ==
    { Call(Wchangequote, <<"[", ",", "]">>),
      Wchangequote \o <<" ">>,
      Wdefine \o <<" ">> }

MaxChunks5 == 3
Init5 == Start(M4(NoLimit), AnyOf(Pieces5, MaxChunks5))
Spec5 == Init5 /\ [][Next]_vars

\* C5: the bare call of define puts back, for rescanning, the name define
\* between the quotes in force at the time of the call, and raises no error
C5_InertNameRequoted ==
    [][BareCall("define") =>
          /\ this'._err = Null
          /\ this'._tokenizer._buffer =
                 this._tokenizer._leftQuote \o Wdefine \o this._tokenizer._rightQuote
                     \o this._tokenizer._buffer]_vars

(***************************************************************************)
(* C6: the nesting limit                                                   *)
(***************************************************************************)
Pieces6 ==
    { Wdivnum \o <<"(">>,
      Wdivnum \o <<" ">>,
      <<"a", " ">>,
      <<")">> }

MaxChunks6 == 3
MaxLimit == 2
Init6 ==
    \E limit \in 0..MaxLimit :
        Start(M4([nestingLimit |-> limit, extensions |-> FALSE]), AnyOf(Pieces6, MaxChunks6))
Spec6 == Init6 /\ [][Next]_vars

\* the step about to be taken finds the pending call followed by '('
PendingParen ==
    /\ pc \in {"t_pending", "f_pending"}
    /\ InBounds(this)
    /\ this._pending # Null
    /\ peekChar(this._tokenizer) = <<"(">>

DepthWithinLimit ==
    /\ this._opts.nestingLimit > 0 => Len(this._macroStack) <= this._opts.nestingLimit
    /\ this._opts.nestingLimit = 0 => this._err # <<E_NEST_LIMIT>>

RejectedAtLimit ==
    (PendingParen /\ this._opts.nestingLimit > 0
                  /\ Len(this._macroStack) = this._opts.nestingLimit) =>
        /\ this'._err = <<E_NEST_LIMIT>>
        /\ this'._macroStack = this._macroStack
        /\ this'.out = this.out
        /\ this'._diversions = this._diversions
        /\ this'._tokenizer = this._tokenizer

\* C6: with a limit L > 0 the call stack never holds more than L frames, a
\* pending call followed by '(' at depth L raises the nesting-limit error
\* with no frame pushed and nothing output; with limit 0 that error is never
\* raised
C6_NestingLimit == []DepthWithinLimit /\ [][RejectedAtLimit]_vars

\* a call was rejected with the stack at the limit
C6_Witness ==
    /\ this._err = <<E_NEST_LIMIT>>
    /\ this._opts.nestingLimit > 0
    /\ Len(this._macroStack) = this._opts.nestingLimit

(***************************************************************************)
(* C7, C8: the same text, cut into chunks at any place                     *)
(***************************************************************************)
RECURSIVE Texts(_, _)
\* the texts made of n pieces at most
Texts(pieces, n) ==
    IF n = 0 THEN {<<>>}
    ELSE LET shorter == Texts(pieces, n - 1) IN
         shorter \cup {t \o p : t \in shorter, p \in pieces}

RECURSIVE Run(_, _)
\* the handler entered in state s runs to its end, in steps steps at most
Run(s, steps) ==
    IF steps = 0 \/ s.pc \in {"idle", "done"} THEN s
    ELSE IF s.pc \in {"t_pending", "f_pending"}
         THEN Run(PendingStep(s.m, IF s.pc = "t_pending" THEN "t" ELSE "f"), steps - 1)
    ELSE Run(ReadStep(s.m, IF s.pc = "t_read" THEN "t" ELSE "f"), steps - 1)

MaxSteps == 200

\* _flush after the chunk that left the engine in state s
ThenFlush(s) ==
    IF s.pc # "idle" THEN s
    ELSE Run(Enter([s.m EXCEPT !._tokenizer = end(@)], <<>>, "f"), MaxSteps)

\* the engine m after text is written as one chunk and the stream is ended
Unsplit(m, text) == ThenFlush(Run(Enter(m, text, "t"), MaxSteps))

Pieces7 ==
    { Wdivnum, Wdnl, Wdivert, <<"(">>, <<")">>, <<"1">>, <<"\n">>, <<Grave, "a", " ", "'">> }

MaxPieces7 == 3
Init7 == \E text \in Texts(Pieces7, MaxPieces7) : Start(M4(NoLimit), GivenText(text))
Spec7 == Init7 /\ [][Next]_vars

SameAsUnsplit(s) == s.pc = "done" => this = s.m

Alphabet8 == { <<"a">>, <<"1">>, <<"(">>, <<",">>, <<")">>, <<" ">>, <<"\n">> }

MaxLen8 == 3
Init8 == \E text \in Texts(Alphabet8, MaxLen8) : Start(M4(NoLimit), GivenText(text))
Spec8 == Init8 /\ [][Next]_vars

\* C8: when the stream has ended, the output is the text that was given
C8_RoundTrip == pc = "done" => this.out = input.whole

\* part of a text with white space and a parenthesis is out while the rest is
\* still to be written
C8_Witness ==
    /\ pc = "idle"
    /\ input.left # <<>>
    /\ this.out # <<>>
    /\ this.out \o this._tokenizer._buffer \o input.left = input.whole
    /\ \E i \in 1..Len(input.whole) : input.whole[i] = " "
    /\ \E i \in 1..Len(input.whole) : input.whole[i] = "("

(***************************************************************************)
(* C10: a macro registered by define, invoked with a list of arguments     *)
(***************************************************************************)
Wfoo == <<"f", "o", "o">>

BodyChars == {"$", "0", "1", "2", "#", "*", "@", "a"}
MaxBody == 3
Bodies == UNION {[1..n -> BodyChars] : n \in 0..MaxBody}

ArgValues == {<<>>, <<"x">>, <<"$", "1">>}
MaxArgs == 2
ArgLists == UNION {[1..n -> ArgValues] : n \in 0..MaxArgs}

Init10 == Start(M4(NoLimit), GivenText(<<>>))

\* the host calls define('foo', body)
HostDefine ==
    /\ ret = Null
    /\ Wfoo \notin DOMAIN this._macros
    /\ \E body \in Bodies : this' = define(this, Str(Wfoo), Str(body)).m
    /\ UNCHANGED <<input, fed, pc, ret>>

\* the host calls changeQuote('[', ']') or changeQuote()
HostChangeQuote ==
    /\ ret = Null
    /\ \E q \in {<<Str(<<"[">>), Str(<<"]">>)>>, <<Undefined, Undefined>>} :
          this' = changeQuote(this, q[1], q[2]).m
    /\ UNCHANGED <<input, fed, pc, ret>>

\* what ret holds after the call r of foo with the arguments args
Returned(body, args, r) == <<[body |-> body, args |-> args, m |-> r.m, text |-> r.v]>>

\* _callMacro(this._macros.foo, ['foo', args...])
Invoke ==
    /\ ret = Null
    /\ Wfoo \in DOMAIN this._macros
    /\ \E args \in ArgLists :
          ret' = Returned(this._macros[Wfoo].body, args,
                          _callMacro(this, this._macros[Wfoo], <<Wfoo>> \o args))
    /\ UNCHANGED <<this, input, fed, pc>>

Next10 == HostDefine \/ HostChangeQuote \/ Invoke
Spec10 == Init10 /\ [][Next10]_vars

\* The reference substitution.  A '$' of the body followed by one of # * @,
\* or else by digits, starts a reference, which ends with that character or
\* with the last digit of the run.
RefEnd(body, j) ==
    IF j < Len(body) /\ body[j + 1] \in {"#", "*", "@"} THEN j + 1
    ELSE CHOOSE e \in j..Len(body) :
             /\ \A k \in (j + 1)..e : body[k] \in Digit
             /\ e = Len(body) \/ body[e + 1] \notin Digit

IsRef(body, j) == body[j] = "$" /\ RefEnd(body, j) > j
InRef(body, i) == \E j \in 1..(i - 1) : IsRef(body, j) /\ i <= RefEnd(body, j)

RECURSIVE Decimal(_)
Decimal(digits) ==
    IF digits = <<>> THEN 0
    ELSE 10 * Decimal(Take(digits, Len(digits) - 1)) + DigitVal(digits[Len(digits)])

RECURSIVE Flatten(_, _)
\* the texts of the list, with sep between them
Flatten(list, sep) ==
    IF list = <<>> THEN <<>>
    ELSE IF Len(list) = 1 THEN list[1]
    ELSE list[1] \o sep \o Flatten(Tail(list), sep)

\* what the reference key stands for; all is the name followed by the
\* arguments, lq and rq the quote pair
RefValue(key, all, lq, rq) ==
    CASE key = <<"#">> -> NatToString(Len(all) - 1)
      [] key = <<"*">> -> Flatten(Tail(all), <<",">>)
      [] key = <<"@">> -> Flatten([i \in 1..(Len(all) - 1) |-> lq \o all[i + 1] \o rq], <<",">>)
      [] OTHER -> IF Decimal(key) + 1 \in 1..Len(all) THEN all[Decimal(key) + 1] ELSE <<>>

RefAt(body, i, all, lq, rq) ==
    IF IsRef(body, i) THEN RefValue(SubSeq(body, i + 1, RefEnd(body, i)), all, lq, rq)
    ELSE IF InRef(body, i) THEN <<>>
    ELSE <<body[i]>>

Reference(body, all, lq, rq) ==
    Flatten([i \in 1..Len(body) |-> RefAt(body, i, all, lq, rq)], <<>>)

\* C10: the call of a macro registered by define returns, as a string, the
\* reference substitution of its body for the name, the arguments and the
\* quote pair in force
C10_DefineThenInvoke ==
    ret # Null =>
        /\ ret[1].m = this
        /\ ret[1].text = Str(Reference(ret[1].body, <<Wfoo>> \o ret[1].args,
                                       this._expandOpts.leftQuote,
                                       this._expandOpts.rightQuote))

\* after changeQuote('[', ']') the body $@1 called with the arguments $1 and
\* x has returned [$1],[x]1
C10_Witness ==
    /\ ret # Null
    /\ ret[1].body = <<"$", "@", "1">>
    /\ ret[1].args = << <<"$", "1">>, <<"x">> >>
    /\ ret[1].text = Str(<<"[", "$", "1", "]", ",", "[", "x", "]", "1">>)

(***************************************************************************)
(* C11: a diverted text is emitted once at most                            *)
(***************************************************************************)
Pieces11 ==
    { Call(Wdivert, <<"1">>) \o <<"a", " ">>,
      Call(Wdivert, <<"2">>) \o <<"b", " ">>,
      Wdivert \o <<" ">>,
      Call(Wundivert, <<"1", ",", "1">>),
      Call(Wundivert, <<"1">>) }

MaxPieces11 == 3
Init11 == \E text \in Texts(Pieces11, MaxPieces11) : Start(M4(NoLimit), GivenText(text))
Spec11 == Init11 /\ [][Next]_vars

\* the letters a and b mark the text that is diverted
RECURSIVE Marks(_)
Marks(text) ==
    IF text = <<>> THEN 0
    ELSE (IF text[1] \in {"a", "b"} THEN 1 ELSE 0) + Marks(Tail(text))

RECURSIVE MarksOf(_, _)
MarksOf(f, keys) ==
    IF keys = {} THEN 0
    ELSE LET k == CHOOSE k \in keys : TRUE IN Marks(f[k]) + MarksOf(f, keys \ {k})

\* the arguments of a call frame, as one text
FrameArgs(frame) == Flatten(frame.args, <<>>)

\* the marks the engine m holds: in the sink, the diversions, the text still
\* to be read and the arguments of the open and pending calls
MarksHeld(m) ==
    Marks(m.out) + MarksOf(m._diversions, DOMAIN m._diversions)
        + Marks(m._tokenizer._buffer)
        + MarksOf([i \in DOMAIN m._macroStack |-> FrameArgs(m._macroStack[i])], DOMAIN m._macroStack)

\* C11: no step of the engine makes a second copy of a diverted text, and a
\* buffer that stays in place keeps its text: a text leaves its buffer only
\* when the buffer is deleted, so that a later drain of the same index finds
\* nothing to emit
C11_DrainedOnce ==
    [][pc # "idle" =>
          /\ MarksHeld(this') <= MarksHeld(this)
          /\ \A k \in DOMAIN this._diversions \cap DOMAIN this'._diversions :
                 StartsWith(this'._diversions[k], this._diversions[k])]_vars

\* divert(1)a divert undivert(1,1) has been processed to the end: the sink
\* holds a once and buffer 1 is gone
C11_Witness ==
    /\ pc = "done"
    /\ input.whole = Call(Wdivert, <<"1">>) \o <<"a", " ">> \o Wdivert \o <<" ">>
                         \o Call(Wundivert, <<"1", ",", "1">>)
    /\ Marks(this.out) = 1
    /\ ~HasDiversion(this, Num(0))

(***************************************************************************)
(* C12: diverted text waits, text at index 0 goes out at once              *)
(***************************************************************************)
Wone == <<"o", "n", "e">>
Wtwo == <<"t", "w", "o">>
Wthree == <<"t", "h", "r", "e", "e">>

Line1 == Call(Wdivert, <<"1">>) \o Wone \o <<"\n">>
Line2 == Call(Wdivert, <<"0">>) \o Wtwo \o <<"\n">>
Line3 == Call(Wundivert, <<"1">>) \o Wthree \o <<"\n">>

MaxPieces12 == 3
Init12 ==
    \E text \in Texts({Line1, Line2, Line3}, MaxPieces12) : Start(M4(NoLimit), GivenText(text))
Spec12 == Init12 /\ [][Next]_vars

\* the step about to be taken hands _processToken, outside any call, a token
\* that is no macro name
PlainTokenAtTop ==
    /\ pc \in {"t_read", "f_read"}
    /\ InBounds(this)
    /\ ~this._dnlMode
    /\ this._macroStack = <<>>
    /\ read(this._tokenizer).token # Null
    /\ read(this._tokenizer).token[1].value \notin DOMAIN this._macros

\* while the index is positive the sink receives nothing before the stream ends
HeldBack == (NumLt(Num(0), this._divertIx) /\ pc' # "done") => this'.out = this.out

\* at index 0 the token is in the sink when the step ends
SentAtOnce ==
    (PlainTokenAtTop /\ NumEq(this._divertIx, Num(0))) =>
        this'.out = this.out \o read(this._tokenizer).token[1].value

ScenarioDone ==
    (pc = "done" /\ input.whole = Line1 \o Line2 \o Line3) =>
        this.out = Wtwo \o <<"\n">> \o Wone \o <<"\n">> \o Wthree \o <<"\n">>

\* C12: text output at a positive index stays out of the sink until it is
\* undiverted at another index or the stream ends, text output at index 0 is
\* in the sink at once, and divert(1)one divert(0)two undivert(1)three, a line
\* each, puts two, one, three in the sink, a line each
C12_DivertedTextWaits == []ScenarioDone /\ [][HeldBack /\ SentAtOnce]_vars

\* the three lines have been processed to the end
C12_Witness ==
    /\ pc = "done"
    /\ input.whole = Line1 \o Line2 \o Line3
    /\ this.out = Wtwo \o <<"\n">> \o Wone \o <<"\n">> \o Wthree \o <<"\n">>

(***************************************************************************)
(* C13: what the skip of leading white space discards                      *)
(***************************************************************************)
Pieces13 ==
    { Wdivnum \o <<"(">>,
      <<Grave, "a", " ", "b", "'">>,
      <<" ">>,
      <<",">>,
      <<"x", " ">>,
      <<")">> }

MaxChunks13 == 3
Init13 == Start(M4(NoLimit), AnyOf(Pieces13, MaxChunks13))
Spec13 == Init13 /\ [][Next]_vars

\* the step about to be taken hands _processToken a Literal token while the
\* skip flag is set
LiteralWhileSkipping ==
    /\ pc \in {"t_read", "f_read"}
    /\ InBounds(this)
    /\ ~this._dnlMode
    /\ this._skipWhitespace
    /\ this._macroStack # <<>>
    /\ read(this._tokenizer).token # Null
    /\ read(this._tokenizer).token[1].type = LITERAL

OnlySpace(value) == \A i \in 1..Len(value) : value[i] \in Space

\* the step has dropped the token: nothing but the tokenizer has changed
Discarded == this' = [this EXCEPT !._tokenizer = read(@).tokenizer]

\* C13: while the skip flag is set a Literal token is discarded only if it
\* is all white space; a quoted span with a character that is no white space
\* is appended to the current argument
C13_OnlyWhitespaceSkipped ==
    [][LiteralWhileSkipping =>
          /\ Discarded => OnlySpace(read(this._tokenizer).token[1].value)
          /\ (StartsWith(this._tokenizer._buffer, this._tokenizer._leftQuote)
                 /\ ~OnlySpace(read(this._tokenizer).token[1].value)) =>
                LastArg(Top(this')) = LastArg(Top(this)) \o read(this._tokenizer).token[1].value]_vars

(***************************************************************************)
(* C14: the diversion index is an integer                                  *)
(***************************************************************************)
\* C14: the current diversion index is an integer, and the buffers that
\* exist are those of positive indices
C14_IntegerIndex ==
    /\ IsInteger(this._divertIx)
    /\ \A k \in DOMAIN this._diversions : IsInteger(k) /\ ~NumLt(k, Num(0))

(***************************************************************************)
(* C15: the buffer of a positive current index exists                      *)
(***************************************************************************)
Pieces15 ==
    { Call(Wdivert, <<"1">>) \o <<"a", " ">>,
      Call(Wdivert, <<"1", ".", "5">>) \o <<"b", " ">>,
      Call(Wundivert, <<"1">>) \o <<"b", " ">>,
      Call(Wundivert, <<"2", ",", "1", ".", "5">>),
      Wundivert \o <<" ">> }

MaxPieces15 == 3
Init15 == \E text \in Texts(Pieces15, MaxPieces15) : Start(M4(NoLimit), GivenText(text))
Spec15 == Init15 /\ [][Next]_vars

\* C15: when the current index is positive its buffer exists, and no buffer
\* of a positive index starts with the text of an undefined value, which is
\* what an append to a missing buffer leaves
C15_CurrentBufferExists ==
    /\ NumLt(Num(0), this._divertIx) => HasDiversion(this, MinusOne(this._divertIx))
    /\ \A k \in DOMAIN this._diversions :
           NumLt(Num(-1), k) => ~StartsWith(this._diversions[k], Wundefined)

\* divert(1)a undivert(1)b has been written: undivert has been called with
\* the current index as its target, and the buffer holds both texts
C15_Witness ==
    /\ pc = "idle"
    /\ input.left = <<>>
    /\ input.whole = Call(Wdivert, <<"1">>) \o <<"a", " ">> \o Call(Wundivert, <<"1">>) \o <<"b", " ">>
    /\ NumEq(this._divertIx, Num(1))
    /\ HasDiversion(this, Num(0))
    /\ this._diversions[Num(0)] = <<"a", " ", "b", " ">>

(***************************************************************************)
(* C16: the paren depth of a call frame                                    *)
(***************************************************************************)
Pieces16 ==
    { Wdivnum \o <<"(">>,
      <<"(">>,
      <<")">>,
      <<Grave, ")", "'">>,
      <<"x", " ">> }

MaxChunks16 == 4
Init16 == Start(M4(NoLimit), AnyOf(Pieces16, MaxChunks16))
Spec16 == Init16 /\ [][Next]_vars

\* the step about to be taken hands _processToken a token inside a call
TokenInFrame ==
    /\ pc \in {"t_read", "f_read"}
    /\ InBounds(this)
    /\ ~this._dnlMode
    /\ this._macroStack # <<>>
    /\ read(this._tokenizer).token # Null

\* that token is the character c, outside quotes
Unquoted(c) ==
    /\ ~StartsWith(this._tokenizer._buffer, this._tokenizer._leftQuote)
    /\ read(this._tokenizer).token[1].value = <<c>>

DepthNeverNegative ==
    \A i \in DOMAIN this._macroStack : this._macroStack[i].parens >= 0

Popped == Len(this'._macroStack) < Len(this._macroStack)

ParenSteps ==
    TokenInFrame =>
        /\ Unquoted("(") =>
              /\ Len(this'._macroStack) = Len(this._macroStack)
              /\ Top(this').parens = Top(this).parens + 1
        /\ (Unquoted(")") /\ Top(this).parens > 0) =>
              /\ Len(this'._macroStack) = Len(this._macroStack)
              /\ Top(this').parens = Top(this).parens - 1
              /\ LastArg(Top(this')) = LastArg(Top(this)) \o <<")">>
        /\ Popped <=> (Unquoted(")") /\ Top(this).parens = 0)

\* C16: the paren depth of every frame is at least 0; an unquoted '(' in the
\* arguments raises the depth of the top frame by one, an unquoted ')' at a
\* depth above 0 lowers it by one and stays in the argument; the top frame is
\* popped on an unquoted ')' at depth 0 and on no other token
C16_ParenDepth == []DepthNeverNegative /\ [][ParenSteps]_vars

(***************************************************************************)
(* C17: a macro redefined inside the arguments of its own call             *)
(***************************************************************************)
Wf == <<"f">>
DefineF(body) == Call(Wdefine, <<Grave, "f", "'", ",", Grave, body, "'">>)

\* define(f,A) f(define(f,B)) f
Text17 == DefineF("A") \o Wf \o <<"(">> \o DefineF("B") \o <<")", " ">> \o Wf \o <<" ">>

Init17 == Start(M4(NoLimit), GivenText(Text17))
Spec17 == Init17 /\ [][Next]_vars

\* a name recognized as a macro is given the function the table holds then
RecognizedWithCurrent ==
    (pc \in {"t_read", "f_read"} /\ this._pending = Null /\ this'._pending # Null) =>
        this'._pending[1].fn = this._macros[this'._pending[1].args[1]]

\* no step changes the function of a call that stays open
FramesKeepFunction ==
    \A i \in DOMAIN this._macroStack \cap DOMAIN this'._macroStack :
        this'._macroStack[i].fn = this._macroStack[i].fn

\* the frame that closes is expanded with the function it holds
ClosedWithOwn ==
    (TokenInFrame /\ Popped) =>
        this'._tokenizer._buffer =
            _callMacro(this, Top(this).fn, Top(this).args).v.v
                \o read(this._tokenizer).tokenizer._buffer

Out17 == pc = "done" => this.out = <<"A", " ", "B", " ">>

\* C17: a call keeps, from the recognition of its name to its closing
\* parenthesis, the function the macro table held at the recognition, and is
\* expanded with it; a define in its arguments changes the later calls only:
\* define(f,A) f(define(f,B)) f puts A B in the sink
C17_NotRetroactive ==
    []Out17 /\ [][RecognizedWithCurrent /\ FramesKeepFunction /\ ClosedWithOwn]_vars

\* the call of f is open with the body A while the table holds the body B
C17_Witness ==
    /\ this._macroStack # <<>>
    /\ this._macroStack[1].args[1] = Wf
    /\ this._macroStack[1].fn = BoundExpand(<<"A">>)
    /\ Wf \in DOMAIN this._macros
    /\ this._macros[Wf] = BoundExpand(<<"B">>)

(***************************************************************************)
(* C18: undivert with two targets                                          *)
(***************************************************************************)
Pieces18 ==
    { Call(Wdivert, <<"1">>) \o <<"a", " ">>,
      Call(Wdivert, <<"2">>) \o <<"b", " ">>,
      Wdivert \o <<" ">>,
      Call(Wundivert, <<"1", ",", "2">>) }

MaxChunks18 == 4
Init18 == Start(M4(NoLimit), AnyOf(Pieces18, MaxChunks18))
Spec18 == Init18 /\ [][Next]_vars

\* the key of the buffer of the diversion written as the digit c
KeyOf(c) == Num(DigitVal(c) - 1)

\* the step about to be taken closes the call undivert(a,b), for two
\* distinct diversions that hold text and are not the current one
ClosesUndivert(a, b) ==
    /\ TokenInFrame
    /\ Unquoted(")")
    /\ Top(this).parens = 0
    /\ Top(this).fn.kind = "macro"
    /\ Top(this).fn.fn = "undivert"
    /\ Top(this).args = <<Wundivert, <<a>>, <<b>>>>
    /\ a # b
    /\ \A c \in {a, b} :
          /\ HasDiversion(this, KeyOf(c))
          /\ this._diversions[KeyOf(c)] # <<>>
          /\ ~NumEq(this._divertIx, Num(DigitVal(c)))
    /\ ~NumLt(this._divertIx, Num(0))

\* C18: undivert(a,b) appends to the output the text of a and then the text
\* of b
C18_TargetsLeftToRight ==
    [][\A a, b \in {"1", "2", "3"} :
          ClosesUndivert(a, b) =>
              Destination(this') = Destination(this) \o this._diversions[KeyOf(a)]
                                       \o this._diversions[KeyOf(b)]]_vars

(***************************************************************************)
(* C19: the handlers return                                                *)
(***************************************************************************)
\* more steps than a handler takes for a chunk written here when it returns
MaxSteps19 == 40

\* C19: with the six bootstrap macros only, the handler that is running
\* returns: it is back at its caller within MaxSteps19 steps
C19_HandlerReturns == Run([m |-> this, pc |-> pc], MaxSteps19).pc \in {"idle", "done"}

(***************************************************************************)
(* C20: the pending call                                                   *)
(***************************************************************************)
\* the token about to be handed to _processToken finds the slot empty
HandedWithEmptySlot ==
    (pc \in {"t_read", "f_read"} /\ read(this._tokenizer).token # Null) =>
        this._pending = Null

\* between two steps of the loop, and between two chunks
BetweenSteps == pc \in {"t_read", "f_read", "idle", "done"}

\* the tokenizer has no buffered character and the input has not ended
Waiting == this._tokenizer._buffer = <<>> /\ ~isEnd(this._tokenizer)

\* the pending call is promoted to a frame or invoked without arguments, its
\* result put back for rescanning, unless the step ends in a fatal error
ResolvedBeforeNext ==
    (PendingParen \/ BareCall(this._pending[1].fn.fn)) =>
        \/ /\ this'._pending = Null
           /\ \/ /\ Len(this'._macroStack) = Len(this._macroStack) + 1
                 /\ Top(this').fn = this._pending[1].fn
              \/ /\ this'._macroStack = this._macroStack
                 /\ this'._tokenizer._buffer =
                        _callMacro(this, this._pending[1].fn, this._pending[1].args).v.v
                            \o this._tokenizer._buffer
        \/ this'._err # Null

====
